---- MODULE Spec2Model ----
(***************************************************************************)
(* Monitor de vacantes docentes: the notification ledger (storage.py), the *)
(* listing matcher (api_client.py), the code lookup (oblea_parser.py) and  *)
(* the orchestrator cycle verificar_vacantes (main.py).                    *)
(*                                                                         *)
(* The ledger is one JSON file that every operation loads whole and saves  *)
(* whole.  A cycle is modelled at the granularity of its calls into the    *)
(* ledger and the notifier: read phase (steps 1-4 of verificar_vacantes),  *)
(* enviar_email, one marcar_como_notificada per listing, and the closing   *)
(* registrar_consulta.                                                     *)
(***************************************************************************)
EXTENDS Integers, Sequences, FiniteSets, TLC

(* ------------------------------ bounds -------------------------------- *)
\* longest feed the API returns in one poll
MaxFeed == 2
\* number of cycles started in one behaviour
MaxCiclos == 2
\* the clock runs from 0 to MaxAhora (unit: one day)
MaxAhora == 1
\* limpiar_antiguas is called with dias in 1..MaxDias
MaxDias == 1
\* registrar_consulta calls made by the run-log specification
MaxConsultas == 150
\* cycles a second process runs while another cycle is in progress
MaxSolapes == 1
\* cycles that fail before the feed, the notifier and the file stop failing
MaxFallos == 2
\* longest text handed to the code extractors, in characters
MaxTexto == 5

(* ------------------------- program constants -------------------------- *)
\* storage.py:81  datos["log_consultas"][-100:]
MAX_LOG == 100

(* --------------------------- value universes -------------------------- *)
Ids == {"1", "2"}
Cargos == {"c1", "c2"}
Nivel == "primaria"

\* a string of the program whose characters matter (a code, a category) is
\* the sequence of its characters
MAT == <<"M", "A", "T">>
ART == <<"A", "R", "T">>
Codigos == {MAT, ART}

\* the upper-case form of a character that has a one-character one
Mayuscula(c) ==
  CASE c = "m" -> "M"
    [] c = "a" -> "A"
    [] c = "t" -> "T"
    [] c = "r" -> "R"
    [] c = "e" -> "E"
    [] c = "f" -> "F"
    [] c = "b" -> "B"
    [] OTHER   -> c

\* "j^" stands for the letter U+01F0 (j with caron) and "^" for the combining
\* caron U+030C: the letter has no upper-case character of its own and
\* str.upper() turns it into J followed by the combining mark
Mayusculas(c) == IF c = "j^" THEN <<"J", "^">> ELSE <<Mayuscula(c)>>

\* str.upper()
RECURSIVE upper(_)
upper(s) == IF s = <<>> THEN <<>> ELSE Mayusculas(Head(s)) \o upper(Tail(s))

\* str.isalpha() of one character
Letras == {"a", "b", "e", "f", "m", "r", "t", "A", "B", "E", "F", "J", "M", "R", "T", "j^"}

\* the characters the class [A-Z] of a regular expression matches
AZ == {"A", "B", "E", "F", "J", "M", "R", "T"}

\* the characters \w matches: letters, digits and the underscore
EsPalabra(c) == c \in Letras \cup {"1", "_"}

\* the characters str.strip() removes
Blancos == {" ", "\t", "\n"}

RECURSIVE lstrip(_)
lstrip(s) == IF s # <<>> /\ Head(s) \in Blancos THEN lstrip(Tail(s)) ELSE s

RECURSIVE rstrip(_)
rstrip(s) ==
  IF s # <<>> /\ s[Len(s)] \in Blancos THEN rstrip(SubSeq(s, 1, Len(s) - 1)) ELSE s

strip(s) == rstrip(lstrip(s))

\* api_client.py Vacante: the fields the ledger and the matcher read
Vacante == [id : Ids, cargo : Cargos, area_incumbencia : Codigos, nivel_modalidad : {Nivel}]

\* the listings a poll can return: the same id with changed descriptive
\* fields, and a second id in another area
Publicadas ==
  { [id |-> "1", cargo |-> "c1", area_incumbencia |-> MAT, nivel_modalidad |-> Nivel],
    [id |-> "1", cargo |-> "c2", area_incumbencia |-> MAT, nivel_modalidad |-> Nivel],
    [id |-> "2", cargo |-> "c1", area_incumbencia |-> ART, nivel_modalidad |-> Nivel] }

\* the sequences of at most n elements of S
RECURSIVE SeqsHasta(_, _)
SeqsHasta(S, n) ==
  IF n = 0 THEN {<<>>}
  ELSE LET menores == SeqsHasta(S, n - 1)
       IN  menores \cup {Append(s, x) : s \in {t \in menores : Len(t) = n - 1}, x \in S}

\* a poll returns each published listing once; two listings can share an id
Feeds == {f \in SeqsHasta(Publicadas, MaxFeed) :
            \A j, k \in DOMAIN f : j # k => f[j] # f[k]}

\* outcome of APIClient.buscar_vacantes: a list, or a raised exception
Respuestas ==
  {[falla |-> TRUE, docs |-> <<>>]} \cup {[falla |-> FALSE, docs |-> f] : f \in Feeds}

\* codigos.txt: missing, unreadable, or readable (with no code, or with MAT)
Manuales ==
  { [estado |-> "ausente", codigos |-> {}], [estado |-> "ilegible", codigos |-> {}],
    [estado |-> "ok", codigos |-> {}], [estado |-> "ok", codigos |-> {MAT}] }

\* what extraer_codigos_oblea returns for oblea.pdf (empty when missing or unreadable)
Pdfs == { {}, {ART} }

Ids_de(vs) == {vs[k].id : k \in DOMAIN vs}

(* ------------------------------ storage.py ---------------------------- *)
SinRegistros == [x \in {} |-> x]

DatosVacios == [vacantes_notificadas |-> SinRegistros, log_consultas |-> <<>>]

\* the file: absent, present with well-formed JSON, or present and malformed
ArchivoAusente == [existe |-> FALSE, valido |-> TRUE, datos |-> DatosVacios]

\* bug: a document that does not parse is taken for the empty default
Legible_siempre(a) == TRUE

\* json.loads succeeds (or the file is absent and the default is returned)
Legible(a) == ~a.existe \/ a.valido

cargar_datos(a) == IF ~a.existe THEN DatosVacios ELSE a.datos

\* bug that is no bug: the save keeps the records the file holds and the
\* document to write lacks
guardar_datos_fusion(a, datos) ==
  LET vn    == cargar_datos(a).vacantes_notificadas
      nuevo == datos.vacantes_notificadas
  IN  [existe |-> TRUE, valido |-> TRUE,
       datos  |-> [datos EXCEPT !.vacantes_notificadas =
                     [x \in DOMAIN vn \cup DOMAIN nuevo |->
                        IF x \in DOMAIN nuevo THEN nuevo[x] ELSE vn[x]]]]

guardar_datos(a, datos) == [existe |-> TRUE, valido |-> TRUE, datos |-> datos]

\* open(path, "w") has truncated the file and the document was never written
Truncado(a) == [existe |-> TRUE, valido |-> FALSE, datos |-> DatosVacios]

\* bug: the exists() test is missing and the empty document is always written
inicializar_db_siempre(a) == guardar_datos(a, DatosVacios)

inicializar_db(a) == IF ~a.existe THEN guardar_datos(a, DatosVacios) ELSE a

\* bug: looks the id up in the document instead of in its "vacantes_notificadas"
vacante_ya_notificada_en_raiz(a, vacante_id) ==
  vacante_id \in {"vacantes_notificadas", "log_consultas"}

vacante_ya_notificada(a, vacante_id) ==
  vacante_id \in DOMAIN cargar_datos(a).vacantes_notificadas

Asignar(f, k, v) == [x \in (DOMAIN f) \cup {k} |-> IF x = k THEN v ELSE f[x]]

\* bug: writes a fresh document holding only the new record
marcar_como_notificada_sola(a, t, vacante_id, cargo, area, nivel) ==
  LET datos == cargar_datos(a)
      info  == [cargo |-> cargo, area |-> area, nivel |-> nivel, fecha_notificacion |-> t]
  IN  guardar_datos(a, [datos EXCEPT
        !.vacantes_notificadas = Asignar(SinRegistros, vacante_id, info)])

\* bug: the record is stored under the cargo instead of the id
marcar_como_notificada_por_cargo(a, t, vacante_id, cargo, area, nivel) ==
  LET datos == cargar_datos(a)
      info  == [cargo |-> cargo, area |-> area, nivel |-> nivel, fecha_notificacion |-> t]
  IN  guardar_datos(a, [datos EXCEPT
        !.vacantes_notificadas = Asignar(@, cargo, info)])

marcar_como_notificada(a, t, vacante_id, cargo, area, nivel) ==
  LET datos == cargar_datos(a)
      info  == [cargo |-> cargo, area |-> area, nivel |-> nivel, fecha_notificacion |-> t]
  IN  guardar_datos(a, [datos EXCEPT
        !.vacantes_notificadas = Asignar(@, vacante_id, info)])

\* bug: a listing counts as notified only if the record has its cargo too
filtrar_nuevas_por_contenido(a, vacantes) ==
  LET vn == cargar_datos(a).vacantes_notificadas
  IN  SelectSeq(vacantes, LAMBDA v : ~(v.id \in DOMAIN vn /\ vn[v.id].cargo = v.cargo))

\* bug: nuevas.insert(0, v) instead of nuevas.append(v)
filtrar_nuevas_al_frente(a, vacantes) ==
  LET ns == SelectSeq(vacantes, LAMBDA v : ~vacante_ya_notificada(a, v.id))
  IN  [k \in 1..Len(ns) |-> ns[Len(ns) + 1 - k]]

\* bug: a listing whose id came earlier in the same list is dropped
filtrar_nuevas_sin_repetidas(a, vacantes) ==
  LET primera(k) == \A j \in 1..(k - 1) : vacantes[j].id # vacantes[k].id
      ks == {k \in DOMAIN vacantes :
               ~vacante_ya_notificada(a, vacantes[k].id) /\ primera(k)}
      RECURSIVE tomar(_)
      tomar(k) == IF k > Len(vacantes) THEN <<>>
                  ELSE (IF k \in ks THEN <<vacantes[k]>> ELSE <<>>) \o tomar(k + 1)
  IN  tomar(1)

filtrar_nuevas(a, vacantes) ==
  SelectSeq(vacantes, LAMBDA v : ~vacante_ya_notificada(a, v.id))

Ultimos(s, n) == IF Len(s) <= n THEN s ELSE SubSeq(s, Len(s) - n + 1, Len(s))

\* bug: the log is cut to its last 100 entries before the append
registrar_consulta_corta_antes(a, t, total_encontradas, n_nuevas, estado) ==
  LET datos   == cargar_datos(a)
      entrada == [fecha |-> t, total_encontradas |-> total_encontradas,
                  nuevas |-> n_nuevas, estado |-> estado]
  IN  guardar_datos(a, [datos EXCEPT
        !.log_consultas = Append(Ultimos(@, MAX_LOG), entrada)])

\* bug: the log is never cut
registrar_consulta_sin_limite(a, t, total_encontradas, n_nuevas, estado) ==
  LET datos   == cargar_datos(a)
      entrada == [fecha |-> t, total_encontradas |-> total_encontradas,
                  nuevas |-> n_nuevas, estado |-> estado]
  IN  guardar_datos(a, [datos EXCEPT !.log_consultas = Append(@, entrada)])

\* bug: the two counts are written to each other's field
registrar_consulta_cuentas_cambiadas(a, t, total_encontradas, n_nuevas, estado) ==
  LET datos   == cargar_datos(a)
      entrada == [fecha |-> t, total_encontradas |-> n_nuevas,
                  nuevas |-> total_encontradas, estado |-> estado]
  IN  guardar_datos(a, [datos EXCEPT
        !.log_consultas = Ultimos(Append(@, entrada), MAX_LOG)])

registrar_consulta(a, t, total_encontradas, n_nuevas, estado) ==
  LET datos   == cargar_datos(a)
      entrada == [fecha |-> t, total_encontradas |-> total_encontradas,
                  nuevas |-> n_nuevas, estado |-> estado]
  IN  guardar_datos(a, [datos EXCEPT
        !.log_consultas = Ultimos(Append(@, entrada), MAX_LOG)])

\* bug: log_consultas[0] instead of log_consultas[-1]
obtener_estadisticas_primera(a) ==
  LET datos == cargar_datos(a)
      log   == datos.log_consultas
  IN  [total_notificadas |-> Cardinality(DOMAIN datos.vacantes_notificadas),
       ultima_consulta   |-> IF log # <<>> THEN log[1] ELSE "None",
       total_consultas   |-> Len(log)]

obtener_estadisticas(a) ==
  LET datos == cargar_datos(a)
      log   == datos.log_consultas
  IN  [total_notificadas |-> Cardinality(DOMAIN datos.vacantes_notificadas),
       ultima_consulta   |-> IF log # <<>> THEN log[Len(log)] ELSE "None",
       total_consultas   |-> Len(log)]

\* bug: the document is saved even when no record was removed
limpiar_antiguas_guarda_siempre(a, t, dias) ==
  LET datos  == cargar_datos(a)
      limite == t - dias
      vn     == datos.vacantes_notificadas
      quedan == {vid \in DOMAIN vn : vn[vid].fecha_notificacion > limite}
  IN  guardar_datos(a, [datos EXCEPT !.vacantes_notificadas = [vid \in quedan |-> vn[vid]]])

limpiar_antiguas(a, t, dias) ==
  LET datos  == cargar_datos(a)
      limite == t - dias
      vn     == datos.vacantes_notificadas
      quedan == {vid \in DOMAIN vn : vn[vid].fecha_notificacion > limite}
      vacantes_actuales == [vid \in quedan |-> vn[vid]]
      eliminadas == Cardinality(DOMAIN vn) - Cardinality(quedan)
  IN  IF eliminadas # 0
      THEN guardar_datos(a, [datos EXCEPT !.vacantes_notificadas = vacantes_actuales])
      ELSE a

(* ---------------------------- api_client.py --------------------------- *)
\* dict.get(key, "") on a doc of the API's answer
get(data, key) == IF key \in DOMAIN data THEN data[key] ELSE ""

\* Vacante.from_api_response: the fields the ledger and the matcher read
from_api_response(data) ==
  [id               |-> get(data, "id"),
   cargo            |-> get(data, "cargo"),
   area_incumbencia |-> strip(upper(data.areaincumbencia)),
   nivel_modalidad  |-> get(data, "descnivelmodalidad")]

\* s occurs in t as a run of consecutive characters
Contiene(t, s) == \E j \in 0..(Len(t) - Len(s)) : SubSeq(t, j + 1, j + Len(s)) = s

\* bug: "codigo in area or area in codigo" instead of set membership
filtrar_por_codigos_subcadena(vacantes, codigos_habilitados) ==
  IF codigos_habilitados = {} THEN vacantes
  ELSE LET codigos_norm == {strip(upper(c)) : c \in codigos_habilitados}
       IN  SelectSeq(vacantes, LAMBDA v :
             \E c \in codigos_norm :
               \/ Contiene(strip(upper(v.area_incumbencia)), c)
               \/ Contiene(c, strip(upper(v.area_incumbencia))))

\* bug: with no codes nothing matches
filtrar_por_codigos_vacio(vacantes, codigos_habilitados) ==
  LET codigos_norm == {strip(upper(c)) : c \in codigos_habilitados}
  IN  SelectSeq(vacantes, LAMBDA v : strip(upper(v.area_incumbencia)) \in codigos_norm)

\* bug: the loop starts at the second listing
filtrar_por_codigos_sin_primera(vacantes, codigos_habilitados) ==
  IF codigos_habilitados = {} THEN vacantes
  ELSE LET codigos_norm == {strip(upper(c)) : c \in codigos_habilitados}
       IN  IF vacantes = <<>> THEN <<>>
           ELSE SelectSeq(Tail(vacantes),
                          LAMBDA v : strip(upper(v.area_incumbencia)) \in codigos_norm)

filtrar_por_codigos(vacantes, codigos_habilitados) ==
  IF codigos_habilitados = {} THEN vacantes
  ELSE LET codigos_norm == {strip(upper(c)) : c \in codigos_habilitados}
       IN  SelectSeq(vacantes, LAMBDA v : strip(upper(v.area_incumbencia)) \in codigos_norm)

(* --------------------------- oblea_parser.py -------------------------- *)
\* CODIGOS_CONOCIDOS: the entries spelled with the letters of the universe
CODIGOS_CONOCIDOS == {<<"A", "E">>, MAT, ART, <<"T", "E", "A">>, <<"/", "E", "F">>}

\* \b at the gap before position p of u: exactly one of the characters on
\* its two sides is a word character (the ends of the text count as none)
Borde(u, p) ==
  (p > 1 /\ EsPalabra(u[p - 1])) # (p <= Len(u) /\ EsPalabra(u[p]))

\* bug: the pattern has no \b after the letters
Rama1_sin_borde(u, p, n) ==
  /\ p + n - 1 <= Len(u)
  /\ \A k \in p..(p + n - 1) : u[k] \in AZ

\* [A-Z]{n}\b at position p
Rama1(u, p, n) ==
  /\ p + n - 1 <= Len(u)
  /\ \A k \in p..(p + n - 1) : u[k] \in AZ
  /\ Borde(u, p + n)

\* /[A-Z]{n}\b at position p
Rama2(u, p, n) ==
  /\ p + n <= Len(u)
  /\ u[p] = "/"
  /\ \A k \in (p + 1)..(p + n) : u[k] \in AZ
  /\ Borde(u, p + n + 1)

\* length of the match of CODIGO_PATTERN that starts at p, 0 for none: the
\* first alternative before the second, the longest repetition first
LargoEn(u, p) ==
  IF ~Borde(u, p) THEN 0
  ELSE IF Rama1(u, p, 4) THEN 4
  ELSE IF Rama1(u, p, 3) THEN 3
  ELSE IF Rama1(u, p, 2) THEN 2
  ELSE IF Rama2(u, p, 3) THEN 4
  ELSE IF Rama2(u, p, 2) THEN 3
  ELSE 0

\* CODIGO_PATTERN.finditer(u) from position p on: the matches from left to
\* right, each search starting where the last match ended
RECURSIVE finditer(_, _)
finditer(u, p) ==
  IF p > Len(u) THEN <<>>
  ELSE LET n == LargoEn(u, p)
       IN  IF n = 0 THEN finditer(u, p + 1)
           ELSE <<[ini |-> p, fin |-> p + n - 1]>> \o finditer(u, p + n)

\* CODIGO_PATTERN.findall(u)
findall(u) ==
  LET ms == finditer(u, 1) IN [k \in DOMAIN ms |-> SubSeq(u, ms[k].ini, ms[k].fin)]

\* str.replace(old, "") for a one-character old
replace(s, old) == SelectSeq(s, LAMBDA c : c # old)

\* str.isalpha()
isalpha(s) == s # <<>> /\ \A k \in DOMAIN s : s[k] \in Letras

\* bug: only the codes of the dictionary are kept
Aceptado_solo_conocidos(codigo) == codigo \in CODIGOS_CONOCIDOS

\* the test of the loop "for match in matches"
Aceptado(codigo) ==
  \/ codigo \in CODIGOS_CONOCIDOS
  \/ /\ Len(codigo) >= 2
     /\ Len(codigo) <= 4
     /\ isalpha(replace(codigo, "/"))

\* extraer_texto_pdf raised (oblea.pdf missing or not readable by
\* pdfplumber) and the except clauses return set(), or the codes of the text
extraer_codigos_oblea(pdf) ==
  IF pdf.estado # "ok" THEN {}
  ELSE LET matches == findall(upper(pdf.texto))
       IN  {strip(matches[k]) : k \in {j \in DOMAIN matches : Aceptado(strip(matches[j]))}}

\* index of the first character of s that is in S (s has one)
Primero(s, S) == CHOOSE k \in DOMAIN s : s[k] \in S /\ \A j \in 1..(k - 1) : s[j] \notin S

\* str.split(sep) for a one-character sep
RECURSIVE split(_, _)
split(s, sep) ==
  IF \A k \in DOMAIN s : s[k] # sep THEN <<s>>
  ELSE LET k == Primero(s, {sep})
       IN  <<SubSeq(s, 1, k - 1)>> \o split(SubSeq(s, k + 1, Len(s)), sep)

\* the characters [,\s] matches
Separadores == {","} \cup Blancos

RECURSIVE sin_separadores_al_frente(_)
sin_separadores_al_frente(s) ==
  IF s # <<>> /\ Head(s) \in Separadores THEN sin_separadores_al_frente(Tail(s)) ELSE s

\* re.split(r'[,\s]+', s)
RECURSIVE re_split(_)
re_split(s) ==
  IF \A k \in DOMAIN s : s[k] \notin Separadores THEN <<s>>
  ELSE LET k == Primero(s, Separadores)
       IN  <<SubSeq(s, 1, k - 1)>>
           \o re_split(sin_separadores_al_frente(SubSeq(s, k + 1, Len(s))))

\* the codes one line of the text contributes
codigos_de_linea(linea_cruda) ==
  LET linea == strip(linea_cruda) IN
  IF linea = <<>> \/ Head(linea) = "#" THEN {}
  ELSE LET partes == re_split(upper(linea))
       IN  {strip(partes[k]) :
              k \in {j \in DOMAIN partes :
                       LET codigo == strip(partes[j])
                       IN  codigo # <<>> /\ Len(codigo) >= 2 /\ Len(codigo) <= 4}}

\* bug: a line that starts with "#" is read like any other line
extraer_codigos_desde_texto_sin_comentarios(texto) ==
  LET lineas == split(texto, "\n")
  IN  UNION {LET partes == re_split(upper(strip(lineas[n])))
             IN  {strip(partes[k]) :
                    k \in {j \in DOMAIN partes : Len(strip(partes[j])) \in 2..4}} :
             n \in DOMAIN lineas}

extraer_codigos_desde_texto(texto) ==
  LET lineas == split(texto, "\n")
  IN  UNION {codigos_de_linea(lineas[n]) : n \in DOMAIN lineas}

cargar_codigos_desde_archivo(manual) ==
  IF manual.estado = "ausente" THEN {} ELSE manual.codigos

\* bug: the codes of both sources are merged
obtener_codigos_union(manual, pdf) == cargar_codigos_desde_archivo(manual) \cup pdf

\* the sources obtener_codigos_habilitados calls, in order
fuentes_consultadas(manual) ==
  IF cargar_codigos_desde_archivo(manual) # {}
  THEN <<"codigos.txt">>
  ELSE <<"codigos.txt", "oblea.pdf">>

\* bug: with no code from either source a built-in code is returned
obtener_codigos_por_defecto(manual, pdf) ==
  LET codigos == cargar_codigos_desde_archivo(manual)
  IN  IF codigos # {} THEN codigos ELSE IF pdf # {} THEN pdf ELSE {MAT}

obtener_codigos_habilitados(manual, pdf) ==
  LET codigos == cargar_codigos_desde_archivo(manual)
  IN  IF codigos # {} THEN codigos ELSE pdf

(* ----------------------------- notifier.py ---------------------------- *)
\* smtp: credentials are configured and the SMTP session succeeded
enviar_email(vacantes, smtp) == IF vacantes = <<>> THEN TRUE ELSE smtp

(* ------------------------------- state -------------------------------- *)
VARIABLES
  archivo,     \* data/vacantes_notificadas.json
  ahora,       \* datetime.now(), in days
  pc,          \* position of verificar_vacantes: idle, notificar, marcar, registrar
  total,       \* verificar_vacantes: len(vacantes)
  filtradas,   \* verificar_vacantes: vacantes_filtradas
  nuevas,      \* verificar_vacantes: nuevas
  i,           \* index of the loop "for v in nuevas"
  reg,         \* arguments of the registrar_consulta call the cycle is about to make
  ciclos,      \* cycles started so far
  entregado,   \* enviar_email returned True in the cycle in progress
  previa,      \* vacantes_filtradas of the last cycle that logged "OK", emptied
               \* when limpiar_antiguas removes a record
  repite,      \* the cycle in progress computed that same vacantes_filtradas again
  consultas,   \* registrar_consulta calls made by the run-log specification
  pendientes,  \* ids of a batch enviar_email failed on, not delivered since
  podadas,     \* ids limpiar_antiguas removed, not recorded again since
  ult,         \* the last operation run and whether it raised
  job,         \* a second thread or process inside a ledger operation: what it
               \* loaded with _cargar_datos and has not yet saved
  perdidas,    \* ids whose record a save of stale data removed, not recorded again since
  solapes,     \* overlapping cycles run by the second process
  entrada,     \* arguments of the last call of a pure function
  salida       \* what that call returned

vars == <<archivo, ahora, pc, total, filtradas, nuevas, i, reg, ciclos, entregado,
          previa, repite, consultas, pendientes, podadas, ult,
          job, perdidas, solapes, entrada, salida>>

local == <<total, filtradas, nuevas, i, reg>>

\* what a sequential cycle and the ledger operations between cycles never touch
otras == <<job, solapes, entrada, salida>>

\* the second process is outside every ledger operation
Ocioso == [pc |-> "idle"]

\* no pure function has been called
SinLlamada == [op |-> "ninguna"]

\* the call has not returned
SinSalida == [veces |-> 0, valor |-> <<>>, previo |-> <<>>]

SinReg == [total |-> 0, nuevas |-> 0, estado |-> ""]

Hecho(op, error) == [op |-> op, error |-> error]

notificadas(a) == cargar_datos(a).vacantes_notificadas

Init ==
  /\ archivo = ArchivoAusente
  /\ ahora = 0
  /\ pc = "idle"
  /\ total = 0
  /\ filtradas = <<>>
  /\ nuevas = <<>>
  /\ i = 0
  /\ reg = SinReg
  /\ ciclos = 0
  /\ entregado = FALSE
  /\ previa = <<>>
  /\ repite = FALSE
  /\ consultas = 0
  /\ pendientes = {}
  /\ podadas = {}
  /\ ult = Hecho("inicio", FALSE)
  /\ job = Ocioso
  /\ perdidas = {}
  /\ solapes = 0
  /\ entrada = SinLlamada
  /\ salida = SinSalida

(* ------------------------------ main.py ------------------------------- *)
AlRegistro(fs, n_total, estado) ==
  [pc |-> "registrar", total |-> n_total, filtradas |-> fs, nuevas |-> <<>>,
   reg |-> [total |-> n_total, nuevas |-> 0, estado |-> estado]]

\* steps 1-4 of verificar_vacantes: codes, feed, filtrar_por_codigos,
\* filtrar_nuevas; the result is where the cycle goes next
verificar_lectura(a, manual, pdf, resp) ==
  IF manual.estado = "ilegible"
  THEN AlRegistro(<<>>, 0, "ERROR - excepcion")
  ELSE
    LET codigos == obtener_codigos_habilitados(manual, pdf) IN
    IF resp.falla
    THEN AlRegistro(<<>>, 0, "ERROR - excepcion")
    ELSE
      LET vacantes == resp.docs IN
      IF vacantes = <<>>
      THEN AlRegistro(<<>>, 0, "OK - Sin vacantes")
      ELSE
        LET vacantes_filtradas ==
              IF codigos # {} THEN filtrar_por_codigos(vacantes, codigos) ELSE vacantes
        IN
        IF vacantes_filtradas = <<>>
        THEN AlRegistro(<<>>, Len(vacantes), "OK - Sin coincidencias")
        ELSE IF ~Legible(a)
        THEN AlRegistro(vacantes_filtradas, 0, "ERROR - excepcion")
        ELSE
          LET ns == filtrar_nuevas(a, vacantes_filtradas) IN
          IF ns = <<>>
          THEN AlRegistro(vacantes_filtradas, Len(vacantes), "OK - Sin nuevas")
          ELSE [pc |-> "notificar", total |-> Len(vacantes),
                filtradas |-> vacantes_filtradas, nuevas |-> ns, reg |-> SinReg]

\* a cycle with the feed and the codes of an earlier cycle computes the
\* vacantes_filtradas of that cycle again
IniciarCiclo ==
  /\ pc = "idle"
  /\ ciclos < MaxCiclos
  /\ \E r \in {verificar_lectura(archivo, manual, pdf, resp) :
                 manual \in Manuales, pdf \in Pdfs, resp \in Respuestas} :
       /\ pc' = r.pc
       /\ total' = r.total
       /\ filtradas' = r.filtradas
       /\ nuevas' = r.nuevas
       /\ reg' = r.reg
       /\ repite' = (previa # <<>> /\ r.filtradas = previa)
  /\ i' = 0
  /\ ciclos' = ciclos + 1
  /\ entregado' = FALSE
  /\ ult' = Hecho("leer", FALSE)
  /\ UNCHANGED <<archivo, ahora, previa, consultas, pendientes, podadas>>
  /\ UNCHANGED <<otras, perdidas>>

\* bug: the listings are marked whatever enviar_email returned
despues_de_enviar_siempre(n_total, ns, ok) == [pc |-> "marcar", i |-> 1, reg |-> SinReg]

\* bug: a failed delivery ends the cycle without its registrar_consulta
despues_de_enviar_sin_registro(n_total, ns, ok) ==
  IF ok
  THEN [pc |-> "marcar", i |-> 1, reg |-> SinReg]
  ELSE [pc |-> "idle", i |-> 0, reg |-> SinReg]

\* bug: a failed delivery is logged with the status of a delivered one
despues_de_enviar_estado_ok(n_total, ns, ok) ==
  IF ok
  THEN [pc |-> "marcar", i |-> 1, reg |-> SinReg]
  ELSE [pc |-> "registrar", i |-> 0,
        reg |-> [total |-> n_total, nuevas |-> Len(ns), estado |-> "OK"]]

\* bug: a delivered batch is logged "OK" and never marked
despues_de_enviar_sin_marcar(n_total, ns, ok) ==
  IF ok
  THEN [pc |-> "registrar", i |-> 0,
        reg |-> [total |-> n_total, nuevas |-> Len(ns), estado |-> "OK"]]
  ELSE [pc |-> "registrar", i |-> 0,
        reg |-> [total |-> n_total, nuevas |-> Len(ns), estado |-> "ERROR - Email no enviado"]]

\* "if enviar_email(nuevas):" and the branch taken
despues_de_enviar(n_total, ns, ok) ==
  IF ok
  THEN [pc |-> "marcar", i |-> 1, reg |-> SinReg]
  ELSE [pc |-> "registrar", i |-> 0,
        reg |-> [total |-> n_total, nuevas |-> Len(ns), estado |-> "ERROR - Email no enviado"]]

Notificar ==
  /\ pc = "notificar"
  /\ \E smtp \in BOOLEAN :
       LET ok == enviar_email(nuevas, smtp)
           r  == despues_de_enviar(total, nuevas, ok)
       IN  /\ pc' = r.pc
           /\ i' = r.i
           /\ reg' = r.reg
           /\ entregado' = ok
           /\ pendientes' = IF ok THEN pendientes \ Ids_de(nuevas)
                                  ELSE pendientes \cup Ids_de(nuevas)
  /\ ult' = Hecho("enviar_email", FALSE)
  /\ UNCHANGED <<archivo, ahora, total, filtradas, nuevas, ciclos, previa, repite, consultas,
                 podadas>>
  /\ UNCHANGED <<otras, perdidas>>

\* one iteration of "for v in nuevas: marcar_como_notificada(...)"
Marcar ==
  /\ pc = "marcar"
  /\ LET v == nuevas[i] IN
     IF Legible(archivo)
     THEN /\ archivo' = marcar_como_notificada(archivo, ahora, v.id, v.cargo,
                                               v.area_incumbencia, v.nivel_modalidad)
          /\ podadas' = podadas \ {v.id}
          /\ perdidas' = perdidas \ {v.id}
          /\ ult' = Hecho("marcar_como_notificada", FALSE)
          /\ IF i = Len(nuevas)
             THEN /\ pc' = "registrar"
                  /\ i' = 0
                  /\ reg' = [total |-> total, nuevas |-> Len(nuevas), estado |-> "OK"]
             ELSE /\ pc' = "marcar"
                  /\ i' = i + 1
                  /\ reg' = reg
     ELSE /\ pc' = "registrar"
          /\ i' = 0
          /\ reg' = [total |-> 0, nuevas |-> 0, estado |-> "ERROR - excepcion"]
          /\ ult' = Hecho("marcar_como_notificada", TRUE)
          /\ UNCHANGED <<archivo, podadas, perdidas>>
  /\ UNCHANGED <<ahora, total, filtradas, nuevas, ciclos, entregado, previa, repite,
                 consultas, pendientes>>
  /\ UNCHANGED otras

\* the registrar_consulta call that ends the cycle; on a malformed file it
\* raises, the except clause calls it again, and that exception leaves
\* verificar_vacantes
Registrar ==
  /\ pc = "registrar"
  /\ IF Legible(archivo)
     THEN /\ archivo' = registrar_consulta(archivo, ahora, reg.total, reg.nuevas, reg.estado)
          /\ previa' = IF reg.estado = "OK" THEN filtradas ELSE previa
          /\ ult' = Hecho("registrar_consulta", FALSE)
     ELSE /\ archivo' = archivo
          /\ previa' = previa
          /\ ult' = Hecho("registrar_consulta", TRUE)
  /\ pc' = "idle"
  /\ total' = 0
  /\ filtradas' = <<>>
  /\ reg' = SinReg
  /\ nuevas' = <<>>
  /\ entregado' = FALSE
  /\ repite' = FALSE
  /\ UNCHANGED <<ahora, i, ciclos, consultas, pendientes, podadas>>
  /\ UNCHANGED <<otras, perdidas>>

verificar_vacantes == IniciarCiclo \/ Notificar \/ Marcar \/ Registrar

(* ------------------- ledger operations between cycles ----------------- *)
InicializarDb ==
  /\ pc = "idle"
  /\ archivo' = inicializar_db(archivo)
  /\ ult' = Hecho("inicializar_db", FALSE)
  /\ UNCHANGED <<ahora, pc, local, ciclos, entregado, previa, repite, consultas, pendientes,
                 podadas>>
  /\ UNCHANGED <<otras, perdidas>>

LimpiarAntiguas ==
  /\ pc = "idle"
  /\ \E dias \in 1..MaxDias :
       IF Legible(archivo)
       THEN LET nuevo == limpiar_antiguas(archivo, ahora, dias)
                fuera == DOMAIN notificadas(archivo) \ DOMAIN notificadas(nuevo)
            IN  /\ archivo' = nuevo
                /\ podadas' = podadas \cup fuera
                /\ previa' = IF fuera = {} THEN previa ELSE <<>>
                /\ ult' = Hecho("limpiar_antiguas", FALSE)
       ELSE /\ ult' = Hecho("limpiar_antiguas", TRUE)
            /\ UNCHANGED <<archivo, podadas, previa>>
  /\ UNCHANGED <<ahora, pc, local, ciclos, entregado, repite, consultas, pendientes>>
  /\ UNCHANGED <<otras, perdidas>>

\* time passes between operations
Tick ==
  /\ pc = "idle"
  /\ ahora < MaxAhora
  /\ ahora' = ahora + 1
  /\ UNCHANGED <<archivo, pc, local, ciclos, entregado, previa, repite, consultas, pendientes,
                 podadas, ult>>
  /\ UNCHANGED <<otras, perdidas>>

Next == verificar_vacantes \/ InicializarDb \/ LimpiarAntiguas \/ Tick

Spec == Init /\ [][Next]_vars

(* ------------ the process is killed in the middle of a cycle ---------- *)
\* between two calls: the file is as the last call left it
Terminar ==
  /\ pc # "idle"
  /\ pc' = "idle"
  /\ total' = 0
  /\ filtradas' = <<>>
  /\ nuevas' = <<>>
  /\ i' = 0
  /\ reg' = SinReg
  /\ entregado' = FALSE
  /\ repite' = FALSE
  /\ ult' = Hecho("terminar", FALSE)
  /\ UNCHANGED <<archivo, ahora, ciclos, previa, consultas, pendientes, podadas>>
  /\ UNCHANGED <<otras, perdidas>>

\* inside _guardar_datos: write_text has opened the file for writing, which
\* empties it, and the document has not reached it
TerminarEscribiendo ==
  /\ pc \in {"marcar", "registrar"}
  /\ Legible(archivo)
  /\ archivo' = Truncado(archivo)
  /\ pc' = "idle"
  /\ total' = 0
  /\ filtradas' = <<>>
  /\ nuevas' = <<>>
  /\ i' = 0
  /\ reg' = SinReg
  /\ entregado' = FALSE
  /\ repite' = FALSE
  /\ ult' = Hecho("terminar", FALSE)
  /\ UNCHANGED <<ahora, ciclos, previa, consultas, pendientes, podadas>>
  /\ UNCHANGED <<otras, perdidas>>

NextTerminar == Next \/ Terminar \/ TerminarEscribiendo

SpecTerminar == Init /\ [][NextTerminar]_vars

(* ------------------- the run log, call after call --------------------- *)
\* the arguments of the k-th registrar_consulta call, made at time k - 1
ArgsDe(k) ==
  [fecha |-> k - 1, total_encontradas |-> k % (MaxFeed + 1), nuevas |-> k % 2,
   estado |-> IF k % 3 = 0 THEN "ERROR - Email no enviado" ELSE "OK"]

RegistrarConsulta ==
  /\ pc = "idle"
  /\ consultas < MaxConsultas
  /\ LET e == ArgsDe(consultas + 1)
     IN  archivo' = registrar_consulta(archivo, ahora, e.total_encontradas, e.nuevas, e.estado)
  /\ ahora' = ahora + 1
  /\ consultas' = consultas + 1
  /\ ult' = Hecho("registrar_consulta", FALSE)
  /\ UNCHANGED <<pc, local, ciclos, entregado, previa, repite, pendientes, podadas>>
  /\ UNCHANGED <<otras, perdidas>>

NextLog == RegistrarConsulta

SpecLog == Init /\ [][NextLog]_vars

(* --------------- a ledger call of the cycle raises -------------------- *)
\* the marcar_como_notificada call for nuevas[i] raises (the file cannot be
\* opened) and leaves the file as it was; the except clause of
\* verificar_vacantes takes over
MarcarFalla ==
  /\ pc = "marcar"
  /\ pc' = "registrar"
  /\ i' = 0
  /\ reg' = [total |-> 0, nuevas |-> 0, estado |-> "ERROR - excepcion"]
  /\ ult' = Hecho("marcar_como_notificada", TRUE)
  /\ UNCHANGED <<archivo, ahora, total, filtradas, nuevas, ciclos, entregado, previa, repite,
                 consultas, pendientes, podadas, perdidas, otras>>

NextErrores == verificar_vacantes \/ MarcarFalla

SpecErrores == Init /\ [][NextErrores]_vars

(* -------------------- the pure functions, call by call ---------------- *)
\* categories as a caller may hand them over: lower case, blanks around, a
\* part of a code, a code and more
AreasCrudas ==
  {MAT, ART, <<"m", "a", "t", " ">>, <<"M", "A">>, <<"M", "A", "T", "E">>}

VacantesCrudas ==
  {[id |-> "1", cargo |-> "c1", area_incumbencia |-> a, nivel_modalidad |-> Nivel] :
     a \in AreasCrudas}
  \cup {[id |-> "2", cargo |-> "c1", area_incumbencia |-> MAT, nivel_modalidad |-> Nivel]}

CodigosCrudos == {MAT, <<" ", "a", "r", "t">>, <<"M", "A">>}

\* codigos.txt: missing, or readable with any of the code sets
ManualesLegibles ==
  {[estado |-> "ausente", codigos |-> {}]}
  \cup {[estado |-> "ok", codigos |-> c] : c \in SUBSET Codigos}

EntradasFunciones ==
  {[op |-> "filtrar_por_codigos", vacantes |-> vs, codigos |-> c] :
     vs \in SeqsHasta(VacantesCrudas, MaxFeed), c \in SUBSET CodigosCrudos}
  \cup {[op |-> "obtener_codigos_habilitados", manual |-> m, pdf |-> d] :
     m \in ManualesLegibles, d \in SUBSET Codigos}

InitFunciones ==
  /\ archivo = ArchivoAusente
  /\ ahora = 0
  /\ pc = "idle"
  /\ total = 0
  /\ filtradas = <<>>
  /\ nuevas = <<>>
  /\ i = 0
  /\ reg = SinReg
  /\ ciclos = 0
  /\ entregado = FALSE
  /\ previa = <<>>
  /\ repite = FALSE
  /\ consultas = 0
  /\ pendientes = {}
  /\ podadas = {}
  /\ ult = Hecho("inicio", FALSE)
  /\ job = Ocioso
  /\ perdidas = {}
  /\ solapes = 0
  /\ entrada \in EntradasFunciones
  /\ salida = SinSalida

ObtenerCodigosHabilitados ==
  /\ entrada.op = "obtener_codigos_habilitados"
  /\ salida.veces = 0
  /\ salida' = [veces |-> 1,
                valor |-> obtener_codigos_habilitados(entrada.manual, entrada.pdf),
                previo |-> fuentes_consultadas(entrada.manual)]
  /\ UNCHANGED <<archivo, ahora, pc, local, ciclos, entregado, previa, repite, consultas,
                 pendientes, podadas, ult, job, perdidas, solapes, entrada>>

FiltrarPorCodigos ==
  /\ entrada.op = "filtrar_por_codigos"
  /\ salida.veces = 0
  /\ salida' = [veces |-> 1,
                valor |-> filtrar_por_codigos(entrada.vacantes, entrada.codigos),
                previo |-> <<>>]
  /\ UNCHANGED <<archivo, ahora, pc, local, ciclos, entregado, previa, repite, consultas,
                 pendientes, podadas, ult, job, perdidas, solapes, entrada>>

\* the list a call returned is filtered again by the same codes
FiltrarDeNuevo ==
  /\ entrada.op = "filtrar_por_codigos"
  /\ salida.veces = 1
  /\ salida' = [veces |-> 2,
                valor |-> filtrar_por_codigos(salida.valor, entrada.codigos),
                previo |-> salida.valor]
  /\ UNCHANGED <<archivo, ahora, pc, local, ciclos, entregado, previa, repite, consultas,
                 pendientes, podadas, ult, job, perdidas, solapes, entrada>>

NextFunciones == ObtenerCodigosHabilitados \/ FiltrarPorCodigos \/ FiltrarDeNuevo

SpecFunciones == InitFunciones /\ [][NextFunciones]_vars

(* ------------- the cycle, with the sources it read from --------------- *)
\* the docs of the API's answer: a doc with an id, and two docs that carry
\* no "id" (one of them with its area as typed)
Documentos ==
  {[id |-> "1", cargo |-> "c1", areaincumbencia |-> ART, descnivelmodalidad |-> Nivel],
   [cargo |-> "c1", areaincumbencia |-> <<"m", "a", "t", " ">>, descnivelmodalidad |-> Nivel],
   [cargo |-> "c2", areaincumbencia |-> MAT, descnivelmodalidad |-> Nivel]}

\* buscar_vacantes: an exception, or one Vacante per doc of the answer
RespuestasDeApi ==
  {[falla |-> TRUE, docs |-> <<>>]}
  \cup {[falla |-> FALSE, docs |-> [k \in DOMAIN ds |-> from_api_response(ds[k])]] :
          ds \in {f \in SeqsHasta(Documentos, MaxFeed) :
                    \A j, k \in DOMAIN f : j # k => f[j] # f[k]}}

\* steps 1-4 of verificar_vacantes, the state of the sources kept
IniciarCicloConFuentes ==
  /\ pc = "idle"
  /\ ciclos < MaxCiclos
  /\ \E manual \in Manuales, pdf \in Pdfs, resp \in RespuestasDeApi :
       LET r == verificar_lectura(archivo, manual, pdf, resp) IN
       /\ pc' = r.pc
       /\ total' = r.total
       /\ filtradas' = r.filtradas
       /\ nuevas' = r.nuevas
       /\ reg' = r.reg
       /\ repite' = (previa # <<>> /\ r.filtradas = previa)
       /\ entrada' = [op |-> "verificar_vacantes", manual |-> manual, pdf |-> pdf,
                      resp |-> resp]
  /\ i' = 0
  /\ ciclos' = ciclos + 1
  /\ entregado' = FALSE
  /\ ult' = Hecho("leer", FALSE)
  /\ UNCHANGED <<archivo, ahora, previa, consultas, pendientes, podadas, perdidas, job,
                 solapes, salida>>

NextFuentes == IniciarCicloConFuentes \/ Notificar \/ Marcar \/ Registrar

SpecFuentes == Init /\ [][NextFuentes]_vars

(* ---------------- the code extractors, text by text ------------------- *)
\* the characters of a document's text: a letter in each case, the marker,
\* a blank, and a letter whose upper-case form ends in a combining mark
CaracteresPdf == {"E", "f", "/", " ", "j^"}

\* the characters of codigos.txt: a letter, the comment marker, a comma, a
\* blank and the end of a line
CaracteresLineas == {"a", "#", ",", " ", "\n"}

\* oblea.pdf: missing, unreadable by pdfplumber, or a document with a text
DocumentosPdf ==
  {[estado |-> "ausente", texto |-> <<>>], [estado |-> "ilegible", texto |-> <<>>]}
  \cup {[estado |-> "ok", texto |-> t] : t \in SeqsHasta(CaracteresPdf, MaxTexto)}

EntradasTexto ==
  {[op |-> "extraer_codigos_oblea", pdf |-> d] : d \in DocumentosPdf}
  \cup {[op |-> "extraer_codigos_desde_texto", texto |-> t] :
          t \in SeqsHasta(CaracteresLineas, MaxTexto)}

InitTexto ==
  /\ archivo = ArchivoAusente
  /\ ahora = 0
  /\ pc = "idle"
  /\ total = 0
  /\ filtradas = <<>>
  /\ nuevas = <<>>
  /\ i = 0
  /\ reg = SinReg
  /\ ciclos = 0
  /\ entregado = FALSE
  /\ previa = <<>>
  /\ repite = FALSE
  /\ consultas = 0
  /\ pendientes = {}
  /\ podadas = {}
  /\ ult = Hecho("inicio", FALSE)
  /\ job = Ocioso
  /\ perdidas = {}
  /\ solapes = 0
  /\ entrada \in EntradasTexto
  /\ salida = SinSalida

ExtraerCodigosOblea ==
  /\ entrada.op = "extraer_codigos_oblea"
  /\ salida.veces = 0
  /\ salida' = [veces |-> 1, valor |-> extraer_codigos_oblea(entrada.pdf), previo |-> <<>>]
  /\ UNCHANGED <<archivo, ahora, pc, local, ciclos, entregado, previa, repite, consultas,
                 pendientes, podadas, ult, job, perdidas, solapes, entrada>>

ExtraerCodigosDesdeTexto ==
  /\ entrada.op = "extraer_codigos_desde_texto"
  /\ salida.veces = 0
  /\ salida' = [veces |-> 1, valor |-> extraer_codigos_desde_texto(entrada.texto),
                previo |-> <<>>]
  /\ UNCHANGED <<archivo, ahora, pc, local, ciclos, entregado, previa, repite, consultas,
                 pendientes, podadas, ult, job, perdidas, solapes, entrada>>

NextTexto == ExtraerCodigosOblea \/ ExtraerCodigosDesdeTexto

SpecTexto == InitTexto /\ [][NextTexto]_vars

(* ------- the scheduler keeps running cycles and a listing stays ------- *)
\* the listing that every poll returns
Fija == [id |-> "1", cargo |-> "c1", area_incumbencia |-> MAT, nivel_modalidad |-> Nivel]

\* the cycles that logged a status of failure
Fallidos(a) ==
  Cardinality({k \in DOMAIN cargar_datos(a).log_consultas :
                 cargar_datos(a).log_consultas[k].estado
                   \in {"ERROR - excepcion", "ERROR - Email no enviado"}})

\* the codes file and the PDF give no code or a code set with the listing's
\* area; the feed raises or returns a list with the listing
EntradasConFija ==
  {e \in [manual : Manuales, pdf : Pdfs, resp : Respuestas] :
     /\ e.manual.estado # "ilegible" =>
          LET codigos == obtener_codigos_habilitados(e.manual, e.pdf)
          IN  codigos = {} \/ Fija.area_incumbencia \in codigos
     /\ ~e.resp.falla => \E k \in DOMAIN e.resp.docs : e.resp.docs[k] = Fija}

\* the IntervalTrigger job: one more cycle, as long as the listing has no
\* record; a read phase that raises is one of the MaxFallos failures
IniciarCicloSiguiente ==
  /\ pc = "idle"
  /\ Legible(archivo)
  /\ ~vacante_ya_notificada(archivo, Fija.id)
  /\ \E e \in EntradasConFija :
       LET r == verificar_lectura(archivo, e.manual, e.pdf, e.resp) IN
       /\ r.reg.estado = "ERROR - excepcion" => Fallidos(archivo) < MaxFallos
       /\ pc' = r.pc
       /\ total' = r.total
       /\ filtradas' = r.filtradas
       /\ nuevas' = r.nuevas
       /\ reg' = r.reg
  /\ i' = 0
  /\ entregado' = FALSE
  /\ repite' = FALSE
  /\ ult' = Hecho("leer", FALSE)
  /\ UNCHANGED <<archivo, ahora, ciclos, previa, consultas, pendientes, podadas, perdidas,
                 otras>>

NotificarConLimite == Notificar /\ (entregado' \/ Fallidos(archivo) < MaxFallos)

MarcarFallaConLimite == MarcarFalla /\ Fallidos(archivo) < MaxFallos

NextVivo ==
  \/ IniciarCicloSiguiente
  \/ NotificarConLimite
  \/ Marcar
  \/ MarcarFallaConLimite
  \/ Registrar

\* the scheduler fires the job again and again and a cycle runs to its end
SpecVivo == Init /\ [][NextVivo]_vars /\ WF_vars(NextVivo)

(* ------------- the ledger's operations called one by one -------------- *)
\* a read leaves the file alone; what the state keeps of it is whether it
\* raised
VacanteYaNotificada ==
  /\ pc = "idle"
  /\ ult' = Hecho("vacante_ya_notificada", ~Legible(archivo))
  /\ UNCHANGED <<archivo, ahora, pc, local, ciclos, entregado, previa, repite, consultas,
                 pendientes, podadas, perdidas, otras>>

\* streamlit_app.py calls filtrar_nuevas on the listings it shows
FiltrarNuevas ==
  /\ pc = "idle"
  /\ ult' = Hecho("filtrar_nuevas", ~Legible(archivo))
  /\ UNCHANGED <<archivo, ahora, pc, local, ciclos, entregado, previa, repite, consultas,
                 pendientes, podadas, perdidas, otras>>

\* streamlit_app.py calls marcar_como_notificada after its own send
MarcarComoNotificada ==
  /\ pc = "idle"
  /\ \E v \in Publicadas :
       IF Legible(archivo)
       THEN /\ archivo' = marcar_como_notificada(archivo, ahora, v.id, v.cargo,
                                                 v.area_incumbencia, v.nivel_modalidad)
            /\ podadas' = podadas \ {v.id}
            /\ perdidas' = perdidas \ {v.id}
            /\ ult' = Hecho("marcar_como_notificada", FALSE)
       ELSE /\ ult' = Hecho("marcar_como_notificada", TRUE)
            /\ UNCHANGED <<archivo, podadas, perdidas>>
  /\ UNCHANGED <<ahora, pc, local, ciclos, entregado, previa, repite, consultas,
                 pendientes, job, solapes, entrada, salida>>

ObtenerEstadisticas ==
  /\ pc = "idle"
  /\ ult' = Hecho("obtener_estadisticas", ~Legible(archivo))
  /\ UNCHANGED <<archivo, ahora, pc, local, ciclos, entregado, previa, repite, consultas,
                 pendientes, podadas, perdidas, otras>>

\* the cycle, the ledger's operations on their own, and a kill inside a write
NextOperaciones ==
  \/ verificar_vacantes
  \/ InicializarDb
  \/ LimpiarAntiguas
  \/ VacanteYaNotificada
  \/ FiltrarNuevas
  \/ MarcarComoNotificada
  \/ ObtenerEstadisticas
  \/ TerminarEscribiendo

SpecOperaciones == Init /\ [][NextOperaciones]_vars

(* ------- a second thread or process working on the same file ---------- *)
\* limpiar_antiguas after its _cargar_datos: the document it is going to
\* save and the number of records it dropped
limpiar_datos(datos, t, dias) ==
  LET limite == t - dias
      vn     == datos.vacantes_notificadas
      quedan == {vid \in DOMAIN vn : vn[vid].fecha_notificacion > limite}
      vacantes_actuales == [vid \in quedan |-> vn[vid]]
  IN  [datos |-> [datos EXCEPT !.vacantes_notificadas = vacantes_actuales],
       eliminadas |-> Cardinality(DOMAIN vn) - Cardinality(quedan)]

\* registrar_consulta after its _cargar_datos: the document it is going to save
registrar_datos(datos, t, total_encontradas, n_nuevas, estado) ==
  [datos EXCEPT !.log_consultas =
     Ultimos(Append(@, [fecha |-> t, total_encontradas |-> total_encontradas,
                        nuevas |-> n_nuevas, estado |-> estado]), MAX_LOG)]

\* the scheduler's job "limpiar_antiguos" runs in a pool thread while a cycle
\* may be in progress: it loads the document and decides what to drop
LimpiarCargar ==
  /\ job.pc = "idle"
  /\ \E dias \in 1..MaxDias :
       LET cargado == cargar_datos(archivo)
           r       == limpiar_datos(cargado, ahora, dias)
       IN  job' = IF r.eliminadas # 0
                  THEN [pc |-> "guardar", op |-> "limpiar_antiguas",
                        cargado |-> cargado, datos |-> r.datos]
                  ELSE job
  /\ UNCHANGED <<archivo, ahora, pc, local, ciclos, entregado, previa, repite, consultas,
                 pendientes, podadas, ult, perdidas, solapes, entrada, salida>>

\* a second verificar_vacantes (another process, or the web page) finds an
\* empty feed and is inside registrar_consulta(0, 0, "OK - Sin vacantes")
SolapeCargar ==
  /\ job.pc = "idle"
  /\ solapes < MaxSolapes
  /\ LET cargado == cargar_datos(archivo)
     IN  job' = [pc |-> "guardar", op |-> "registrar_consulta", cargado |-> cargado,
                 datos |-> registrar_datos(cargado, ahora, 0, 0, "OK - Sin vacantes")]
  /\ solapes' = solapes + 1
  /\ UNCHANGED <<archivo, ahora, pc, local, ciclos, entregado, previa, repite, consultas,
                 pendientes, podadas, ult, perdidas, entrada, salida>>

\* the _guardar_datos that ends the second process's operation
JobGuardar ==
  /\ job.pc = "guardar"
  /\ archivo' = guardar_datos(archivo, job.datos)
  /\ perdidas' = perdidas \cup
                   (DOMAIN notificadas(archivo) \ DOMAIN job.cargado.vacantes_notificadas)
  /\ job' = Ocioso
  /\ UNCHANGED <<ahora, pc, local, ciclos, entregado, previa, repite, consultas,
                 pendientes, podadas, ult, solapes, entrada, salida>>

\* the cycle when nothing fails: the codes file is readable, the feed
\* answers (with fewer listings than the longest feed) and the notifier
\* delivers
EmpezarSinFalla == IniciarCiclo /\ reg'.estado # "ERROR - excepcion" /\ total' < MaxFeed

NotificarEntregado == Notificar /\ entregado'

\* the second process's operation lies inside the cycle in progress: it
\* loads after the cycle has read the ledger and saves before the cycle's
\* closing registrar_consulta
LimpiarSolapado == LimpiarCargar /\ pc \in {"notificar", "marcar"}

CicloSolapado == SolapeCargar /\ pc \in {"notificar", "marcar"}

CerrarCiclo == Registrar /\ job.pc = "idle"

NextConcurrente ==
  \/ EmpezarSinFalla
  \/ NotificarEntregado
  \/ Marcar
  \/ CerrarCiclo
  \/ Tick
  \/ LimpiarSolapado
  \/ CicloSolapado
  \/ JobGuardar

SpecConcurrente == Init /\ [][NextConcurrente]_vars

(* ============================== properties ============================ *)
Rango(q) == {q[k] : k \in DOMAIN q}

registro(a, vid) == notificadas(a)[vid]

\* a step of limpiar_antiguas
PasoLimpiar == ult'.op = "limpiar_antiguas" /\ LimpiarAntiguas

(* C1: the notifier is never handed a listing whose id has a record in the  *)
(* notified mapping, whatever its descriptive fields; and a cycle that      *)
(* repeats the feed and codes of an earlier cycle that delivered and logged *)
(* "OK", with no record pruned in between, finds nothing new and sends      *)
(* nothing.                                                                 *)
C1_NuncaDosVeces ==
  /\ pc = "notificar" =>
       \A k \in DOMAIN nuevas : nuevas[k].id \notin DOMAIN notificadas(archivo)
  /\ repite => /\ nuevas = <<>>
               /\ pc = "registrar"
               /\ reg.estado = "OK - Sin nuevas"

\* a repeated cycle has run on records whose cargo differs from the listing's
C1_Witness ==
  /\ repite
  /\ pc = "registrar"
  /\ \E k \in DOMAIN filtradas :
       /\ filtradas[k].id \in DOMAIN notificadas(archivo)
       /\ registro(archivo, filtradas[k].id).cargo # filtradas[k].cargo

(* C2: marcar_como_notificada runs only after enviar_email returned True    *)
(* for the batch holding the id; a cycle whose enviar_email returned False  *)
(* leaves the notified mapping as it was; and every id of an undelivered    *)
(* batch is returned by filtrar_nuevas in the next cycle that hands a       *)
(* listing with that id to it.                                              *)
C2_SoloTrasEntrega ==
  /\ [](pc = "marcar" => entregado /\ nuevas # <<>>)
  /\ [][notificadas(archivo') # notificadas(archivo) /\ ~PasoLimpiar
          => /\ pc = "marcar" /\ entregado
             /\ DOMAIN notificadas(archivo') = DOMAIN notificadas(archivo) \cup {nuevas[i].id}]_vars
  /\ [][pc = "notificar" /\ ~entregado' => notificadas(archivo') = notificadas(archivo)]_vars
  /\ [](pc # "idle" =>
         \A k \in DOMAIN filtradas :
           filtradas[k].id \in pendientes => filtradas[k] \in Rango(nuevas))

\* an id of a batch that was not delivered is new again in a later cycle
C2_Witness ==
  /\ pc = "notificar"
  /\ \E k \in DOMAIN nuevas : nuevas[k].id \in pendientes

(* C3 as stated: once an id has a record, the record stays the same through *)
(* every later operation, later marcar_como_notificada calls included,      *)
(* until limpiar_antiguas deletes it.                                       *)
C3_NuncaActualizado ==
  [][\A vid \in DOMAIN notificadas(archivo) :
       \/ PasoLimpiar
       \/ /\ vid \in DOMAIN notificadas(archivo')
          /\ registro(archivo', vid) = registro(archivo, vid)]_vars

(* C3 amended: a record stays the same through every later operation until *)
(* limpiar_antiguas deletes it, except that marcar_como_notificada for the  *)
(* same id overwrites it; a cycle makes that call on an id that already has *)
(* a record only for the second and later occurrences of the id in its own  *)
(* batch, so no record that existed when the cycle filtered is changed.     *)
C3_SoloDuplicados ==
  [][\A vid \in DOMAIN notificadas(archivo) :
       \/ PasoLimpiar
       \/ /\ vid \in DOMAIN notificadas(archivo')
          /\ registro(archivo', vid) = registro(archivo, vid)
       \/ /\ pc = "marcar"
          /\ nuevas[i].id = vid
          /\ \E j \in 1..(i - 1) : nuevas[j].id = vid
          /\ registro(archivo', vid) =
               [cargo |-> nuevas[i].cargo, area |-> nuevas[i].area_incumbencia,
                nivel |-> nuevas[i].nivel_modalidad, fecha_notificacion |-> ahora]]_vars

\* a later cycle met a recorded id with another cargo and left the record
C3_Witness ==
  /\ pc = "registrar"
  /\ reg.estado = "OK - Sin nuevas"
  /\ \E k \in DOMAIN filtradas :
       registro(archivo, filtradas[k].id).cargo # filtradas[k].cargo

(* C4: no operation other than limpiar_antiguas removes an id from the      *)
(* notified mapping; and an id limpiar_antiguas removed is returned as new  *)
(* by filtrar_nuevas when a later feed brings it.                           *)
C4_SoloPodaBorra ==
  /\ [][DOMAIN notificadas(archivo) \subseteq DOMAIN notificadas(archivo')
          \/ PasoLimpiar]_vars
  /\ [](pc # "idle" =>
         \A k \in DOMAIN filtradas :
           filtradas[k].id \in podadas => filtradas[k] \in Rango(nuevas))

\* a pruned id came back in a feed and is about to be notified again
C4_Witness ==
  /\ pc = "notificar"
  /\ \E k \in DOMAIN nuevas : nuevas[k].id \in podadas

(* C5: limpiar_antiguas(dias) removes a record with timestamp T if and only *)
(* if ahora - T > dias; a record with ahora - T = dias is kept.             *)
C5_PodaEstricta ==
  [][\A dias \in 1..MaxDias :
       PasoLimpiar /\ archivo' = limpiar_antiguas(archivo, ahora, dias)
         => \A vid \in DOMAIN notificadas(archivo) :
              (vid \notin DOMAIN notificadas(archivo'))
                <=> (ahora - registro(archivo, vid).fecha_notificacion > dias)]_vars

(* C6: after k registrar_consulta calls on an empty log, the log holds the  *)
(* last min(k, 100) entries in the order they were appended, so it never has *)
(* more than 100 entries, and 150 calls leave entries 51..150.               *)
C6_UltimasCien ==
  LET log == cargar_datos(archivo).log_consultas
      m   == IF consultas < MAX_LOG THEN consultas ELSE MAX_LOG
  IN  /\ Len(log) = m
      /\ Len(log) <= 100
      /\ \A j \in 1..m : log[j] = ArgsDe(consultas - m + j)
      /\ consultas = 150 => log[1] = ArgsDe(51) /\ log[100] = ArgsDe(150)

\* the 150th call has been made
C6_Witness ==
  /\ consultas = 150
  /\ Len(cargar_datos(archivo).log_consultas) = 100
  /\ ult.op = "registrar_consulta"

\* the positions of the listings whose id has no record
Ausentes(a, vs) == {k \in DOMAIN vs : vs[k].id \notin DOMAIN notificadas(a)}

\* the j-th smallest element of a set of positions
Posicion(K, j) == CHOOSE k \in K : Cardinality({m \in K : m <= k}) = j

\* the file is as filtrar_nuevas read it
RecienFiltrado == pc = "notificar" \/ (pc = "registrar" /\ reg.estado = "OK - Sin nuevas")

(* C7: filtrar_nuevas returns exactly the listings of its argument whose id *)
(* is absent from the notified mapping, in their original relative order.   *)
C7_Subsecuencia ==
  RecienFiltrado =>
    LET K == Ausentes(archivo, filtradas)
    IN  /\ Len(nuevas) = Cardinality(K)
        /\ \A j \in 1..Len(nuevas) : nuevas[j] = filtradas[Posicion(K, j)]

\* a call that kept one listing and dropped another
C7_Witness ==
  /\ pc = "notificar"
  /\ Len(nuevas) < Len(filtradas)

\* the id is reported as notified and no listing with it passes filtrar_nuevas
Excluida(a, vid) ==
  /\ vacante_ya_notificada(a, vid)
  /\ \A v \in Publicadas : v.id = vid => filtrar_nuevas(a, <<v>>) = <<>>

(* C8 as stated: after marcar_como_notificada(id) every later filtrar_nuevas *)
(* call excludes id: no id that marcar_como_notificada ever recorded is      *)
(* returned by the filtrar_nuevas of a cycle.                                *)
C8_ExcluidaSiempre ==
  pc = "notificar" =>
    \A k \in DOMAIN nuevas :
      nuevas[k].id \notin (DOMAIN notificadas(archivo) \cup podadas)

(* C8 amended: after marcar_como_notificada(id) completes,                   *)
(* vacante_ya_notificada(id) is true and filtrar_nuevas excludes id, and     *)
(* that stays so through every later operation, however many filtrar_nuevas  *)
(* calls are made, until limpiar_antiguas removes the record of id.          *)
C8_ExcluidaHastaPoda ==
  /\ [][ult'.op = "marcar_como_notificada" /\ ~ult'.error /\ pc = "marcar"
          => Excluida(archivo', nuevas[i].id)]_vars
  /\ [][\A vid \in Ids : Excluida(archivo, vid) /\ ~PasoLimpiar => Excluida(archivo', vid)]_vars
  /\ [][ult'.op = "leer" => archivo' = archivo]_vars

\* a cycle filtered out a listing recorded by an earlier cycle
C8_Witness ==
  /\ pc = "registrar"
  /\ reg.estado = "OK - Sin nuevas"
  /\ ciclos = 2
  /\ \E k \in DOMAIN filtradas : Excluida(archivo, filtradas[k].id)

(* C9: inicializar_db creates the store with an empty notified mapping and  *)
(* an empty log when the file is missing, leaves an existing file exactly as *)
(* it is, and is idempotent, so it loses no record and no log entry.         *)
C9_InicializarConserva ==
  /\ [][ult'.op = "inicializar_db" /\ InicializarDb
          => /\ archivo.existe => archivo' = archivo
             /\ ~archivo.existe =>
                  archivo' = [existe |-> TRUE, valido |-> TRUE, datos |-> DatosVacios]
             /\ inicializar_db(archivo') = archivo']_vars

\* inicializar_db has run on a file holding a record and a log entry
C9_Witness ==
  /\ ult.op = "inicializar_db"
  /\ archivo.existe
  /\ DOMAIN notificadas(archivo) # {}
  /\ cargar_datos(archivo).log_consultas # <<>>

(* C10: when the process is killed at any point of a cycle the file is as   *)
(* the last completed write left it: well-formed, with every record and log  *)
(* entry written before.                                                     *)
C10_TerminarConserva ==
  [][ult'.op = "terminar" /\ pc # "idle"
       => /\ archivo' = archivo
          /\ archivo'.existe => archivo'.valido]_vars

(* C11: without serialization a second actor's whole-document save (the     *)
(* scheduled limpiar_antiguas job, or the registrar_consulta of an          *)
(* overlapping cycle) writes back the document it loaded, so every id       *)
(* recorded by marcar_como_notificada between that load and that save is    *)
(* absent from the notified mapping afterwards; and the next cycle whose    *)
(* feed brings such an id finds it new and hands it to the notifier again.  *)
C11_ActualizacionPerdida ==
  /\ [][JobGuardar =>
          \A vid \in DOMAIN notificadas(archivo) \ DOMAIN job.cargado.vacantes_notificadas :
            vid \notin DOMAIN notificadas(archivo')]_vars
  /\ [][ult'.op = "leer" /\ pc = "idle" =>
          \A k \in DOMAIN filtradas' :
            filtradas'[k].id \in perdidas =>
              /\ filtradas'[k] \in Rango(nuevas')
              /\ pc' = "notificar"]_vars

\* an id recorded by an earlier cycle lost its record to a stale save and a
\* later cycle is about to notify it again
C11_Witness ==
  /\ pc = "notificar"
  /\ \E k \in DOMAIN nuevas :
       /\ nuevas[k].id \in perdidas
       /\ nuevas[k].id \notin DOMAIN notificadas(archivo)

\* the file is there and json.loads fails on it
Malformado(a) == a.existe /\ ~a.valido

\* the operations that begin with _cargar_datos
OperacionesQueLeen ==
  {"vacante_ya_notificada", "filtrar_nuevas", "marcar_como_notificada", "registrar_consulta",
   "obtener_estadisticas", "limpiar_antiguas"}

log_consultas(a) == cargar_datos(a).log_consultas

(* C13: every run of verificar_vacantes on a well-formed file appends       *)
(* exactly one entry to log_consultas, whichever way it goes: the log has   *)
(* one entry per finished cycle, only the closing registrar_consulta        *)
(* appends, it appends one entry, and every cycle ends through it.          *)
C13_UnaEntradaPorCiclo ==
  /\ [](Len(log_consultas(archivo)) = ciclos - (IF pc = "idle" THEN 0 ELSE 1))
  /\ [][pc = "registrar" =>
          log_consultas(archivo') =
            Append(log_consultas(archivo),
                   [fecha |-> ahora, total_encontradas |-> reg.total,
                    nuevas |-> reg.nuevas, estado |-> reg.estado])]_vars
  /\ [][pc # "registrar" => log_consultas(archivo') = log_consultas(archivo)]_vars
  /\ [][pc # "idle" /\ pc' = "idle" => pc = "registrar"]_vars

\* a cycle whose delivery failed and a cycle whose second
\* marcar_como_notificada raised have one entry each
C13_Witness ==
  /\ pc = "idle"
  /\ Len(log_consultas(archivo)) = 2
  /\ log_consultas(archivo)[1].estado = "ERROR - Email no enviado"
  /\ log_consultas(archivo)[2].estado = "ERROR - excepcion"
  /\ DOMAIN notificadas(archivo) # {}

\* the first word of each status verificar_vacantes writes
PrimeraPalabra ==
  [e \in {"OK", "OK - Sin vacantes", "OK - Sin coincidencias", "OK - Sin nuevas",
          "ERROR - Email no enviado", "ERROR - excepcion"} |->
     IF e \in {"ERROR - Email no enviado", "ERROR - excepcion"} THEN "ERROR" ELSE "OK"]

\* a step of the read phase raises: codigos.txt cannot be read, or the feed
\* client raises
LecturaFalla(manual, resp) == manual.estado = "ilegible" \/ resp.falla

(* C14: when enviar_email returns False or a step of the cycle raises, the *)
(* entry the cycle appends has a status that starts with "ERROR"; a status  *)
(* that starts with "OK" is written only when nothing failed: the feed was  *)
(* empty, no listing matched, no listing was new, or the batch was          *)
(* delivered and every id of it recorded.                                   *)
C14_FallaVisible ==
  /\ [][pc = "notificar" /\ ~entregado' =>
          pc' = "registrar" /\ PrimeraPalabra[reg'.estado] = "ERROR"]_vars
  /\ [][pc # "idle" /\ ult'.error =>
          pc' = "registrar" /\ PrimeraPalabra[reg'.estado] = "ERROR"]_vars
  /\ [](\A manual \in Manuales, pdf \in Pdfs, resp \in Respuestas :
          LecturaFalla(manual, resp) =>
            LET r == verificar_lectura(archivo, manual, pdf, resp)
            IN  r.pc = "registrar" /\ PrimeraPalabra[r.reg.estado] = "ERROR")
  /\ [](pc = "registrar" =>
          /\ reg.estado \in DOMAIN PrimeraPalabra
          /\ reg.estado = "OK" =>
                /\ entregado
                /\ ~ult.error
                /\ \A k \in DOMAIN nuevas : nuevas[k].id \in DOMAIN notificadas(archivo)
          /\ reg.estado = "OK - Sin nuevas" =>
                /\ nuevas = <<>> /\ filtradas # <<>>
                /\ \A k \in DOMAIN filtradas :
                     filtradas[k].id \in DOMAIN notificadas(archivo)
          /\ reg.estado = "OK - Sin coincidencias" => filtradas = <<>> /\ total > 0
          /\ reg.estado = "OK - Sin vacantes" => total = 0 /\ ult = Hecho("leer", FALSE))
  /\ [][pc = "registrar" =>
          log_consultas(archivo')[Len(log_consultas(archivo'))].estado = reg.estado]_vars

\* the batch was delivered, a marcar_como_notificada call raised, and the
\* cycle is about to log an ERROR status
C14_Witness ==
  /\ pc = "registrar"
  /\ entregado
  /\ ult = Hecho("marcar_como_notificada", TRUE)
  /\ PrimeraPalabra[reg.estado] = "ERROR"

(* C15: a listing that every poll returns and that passes the code filter   *)
(* is eventually recorded, when cycles keep running and at most MaxFallos   *)
(* of them fail (feed, codes file, notifier or marcar_como_notificada); a   *)
(* record for it is written only in a cycle whose enviar_email delivered    *)
(* it; and as long as it has no record, whatever failed before, a cycle     *)
(* whose read phase does not raise hands it to the notifier.                *)
C15_NuncaDescartada ==
  /\ <>vacante_ya_notificada(archivo, Fija.id)
  /\ [][~vacante_ya_notificada(archivo, Fija.id) /\ vacante_ya_notificada(archivo', Fija.id)
          => pc = "marcar" /\ entregado /\ Fija \in Rango(nuevas)]_vars
  /\ [](pc = "registrar" /\ reg.estado = "OK" /\ Fija \in Rango(nuevas)
          => vacante_ya_notificada(archivo, Fija.id))
  /\ [](pc = "idle" /\ ~vacante_ya_notificada(archivo, Fija.id) =>
          \A e \in EntradasConFija :
            LET r == verificar_lectura(archivo, e.manual, e.pdf, e.resp)
            IN  r.reg.estado # "ERROR - excepcion" =>
                  r.pc = "notificar" /\ Fija \in Rango(r.nuevas))

\* the listing was recorded after a cycle that raised and a cycle whose
\* delivery failed
C15_Witness ==
  /\ vacante_ya_notificada(archivo, Fija.id)
  /\ Fallidos(archivo) = MaxFallos
  /\ \E j, k \in DOMAIN log_consultas(archivo) :
       /\ log_consultas(archivo)[j].estado = "ERROR - excepcion"
       /\ log_consultas(archivo)[k].estado = "ERROR - Email no enviado"

(* C16: when codigos.txt gives no code and the PDF gives no code,           *)
(* obtener_codigos_habilitados returns the empty set, and the cycle does    *)
(* not filter: every listing the feed returned goes to filtrar_nuevas,      *)
(* those without a record go to the notifier, and the status the cycle      *)
(* logs is not an error.                                                    *)
C16_SinCodigosSinFiltro ==
  \A manual \in Manuales, resp \in Respuestas :
    (manual.estado # "ilegible" /\ cargar_codigos_desde_archivo(manual) = {} /\ ~resp.falla) =>
      LET r == verificar_lectura(archivo, manual, {}, resp) IN
      /\ obtener_codigos_habilitados(manual, {}) = {}
      /\ r.pc = "registrar" => PrimeraPalabra[r.reg.estado] = "OK"
      /\ resp.docs # <<>> =>
           /\ r.filtradas = resp.docs
           /\ r.total = Len(resp.docs)
           /\ \A k \in DOMAIN resp.docs :
                resp.docs[k].id \notin DOMAIN notificadas(archivo)
                  => r.pc = "notificar" /\ resp.docs[k] \in Rango(r.nuevas)

\* listings of two areas are on their way to the notifier, which no code
\* set of the two sources lets through together
C16_Witness ==
  /\ pc = "notificar"
  /\ \E j, k \in DOMAIN nuevas :
       nuevas[j].area_incumbencia = MAT /\ nuevas[k].area_incumbencia = ART

(* C17: when codigos.txt yields a non-empty code set,                       *)
(* obtener_codigos_habilitados returns exactly that set and does not call   *)
(* the PDF extraction, whatever the PDF would yield; the PDF is consulted,  *)
(* and its codes returned, only when codigos.txt yields nothing.            *)
C17_PrecedenciaManual ==
  (entrada.op = "obtener_codigos_habilitados" /\ salida.veces = 1) =>
    IF entrada.manual.estado = "ok" /\ entrada.manual.codigos # {}
    THEN /\ salida.valor = entrada.manual.codigos
         /\ salida.previo = <<"codigos.txt">>
    ELSE /\ salida.valor = entrada.pdf
         /\ salida.previo = <<"codigos.txt", "oblea.pdf">>

\* both sources had codes and the call returned the manual ones
C17_Witness ==
  /\ entrada.op = "obtener_codigos_habilitados"
  /\ salida.veces = 1
  /\ entrada.manual.codigos = {MAT}
  /\ entrada.pdf = {ART}
  /\ salida.valor = {MAT}

\* s without the blanks at its two ends
Recortado(s) ==
  LET K == {k \in DOMAIN s : s[k] \notin Blancos}
  IN  IF K = {} THEN <<>>
      ELSE SubSeq(s, CHOOSE k \in K : \A m \in K : k <= m,
                     CHOOSE k \in K : \A m \in K : m <= k)

\* upper-cased and trimmed
Normalizado(s) == Recortado([k \in DOMAIN s |-> Mayuscula(s[k])])

\* the positions of the listings whose category is equal to a code
Coinciden(vs, codigos) ==
  {k \in DOMAIN vs : \E c \in codigos : Normalizado(vs[k].area_incumbencia) = Normalizado(c)}

(* C18: with a non-empty code set filtrar_por_codigos returns, in their     *)
(* order, exactly the listings whose category, upper-cased and trimmed, is  *)
(* equal to a code upper-cased and trimmed; a category that contains a code *)
(* or is part of one does not count.                                        *)
C18_CoincidenciaExacta ==
  (entrada.op = "filtrar_por_codigos" /\ salida.veces = 1 /\ entrada.codigos # {}) =>
    LET K == Coinciden(entrada.vacantes, entrada.codigos)
    IN  /\ Len(salida.valor) = Cardinality(K)
        /\ \A j \in 1..Len(salida.valor) : salida.valor[j] = entrada.vacantes[Posicion(K, j)]
        /\ \A k \in DOMAIN entrada.vacantes :
             (\A c \in entrada.codigos :
                Normalizado(entrada.vacantes[k].area_incumbencia) # Normalizado(c))
               => entrada.vacantes[k] \notin Rango(salida.valor)

\* a lower-case category with a blank was kept and a category that is a
\* part of the code was dropped
C18_Witness ==
  /\ entrada.op = "filtrar_por_codigos"
  /\ salida.veces = 1
  /\ entrada.codigos = {MAT}
  /\ Len(entrada.vacantes) = 2
  /\ entrada.vacantes[1].area_incumbencia = <<"M", "A">>
  /\ entrada.vacantes[2].area_incumbencia = <<"m", "a", "t", " ">>
  /\ salida.valor = <<entrada.vacantes[2]>>

(* C19: filtrar_por_codigos with the empty code set returns the list it was *)
(* given: same listings, same order, same length.                           *)
C19_SinCodigosIgual ==
  (entrada.op = "filtrar_por_codigos" /\ salida.veces = 1 /\ entrada.codigos = {}) =>
    /\ Len(salida.valor) = Len(entrada.vacantes)
    /\ \A k \in DOMAIN entrada.vacantes : salida.valor[k] = entrada.vacantes[k]
    /\ salida.valor = entrada.vacantes

\* a list of the greatest length went through with no codes
C19_Witness ==
  /\ entrada.op = "filtrar_por_codigos"
  /\ salida.veces = 1
  /\ entrada.codigos = {}
  /\ Len(entrada.vacantes) = MaxFeed
  /\ entrada.vacantes[1] # entrada.vacantes[MaxFeed]

(* C20: filtering the list filtrar_por_codigos returned, by the same codes, *)
(* returns that list again.                                                 *)
C20_Idempotente ==
  (entrada.op = "filtrar_por_codigos" /\ salida.veces = 2) => salida.valor = salida.previo

\* the first call dropped a listing and kept one, and the second kept it
C20_Witness ==
  /\ entrada.op = "filtrar_por_codigos"
  /\ salida.veces = 2
  /\ salida.valor # <<>>
  /\ Len(salida.valor) < Len(entrada.vacantes)

(* ------------------------------- C21 ---------------------------------- *)
\* the code c stands in u as a token: nothing of a word follows it and,
\* unless it begins with the marker, nothing of a word precedes it
HayToken(u, c) ==
  \E p \in 1..(Len(u) - Len(c) + 1) :
    /\ SubSeq(u, p, p + Len(c) - 1) = c
    /\ p + Len(c) > Len(u) \/ ~EsPalabra(u[p + Len(c)])
    /\ c[1] = "/" \/ p = 1 \/ ~EsPalabra(u[p - 1])

DocumentoLeido ==
  entrada.op = "extraer_codigos_oblea" /\ entrada.pdf.estado = "ok" /\ salida.veces = 1

\* C21: whenever the text of the document holds a token equal to a code of
\* the dictionary ("/EF" too, at the start of the text, after a blank or
\* after another character), extraer_codigos_oblea returns that code.
C21_CodigoConocidoIncluido ==
  DocumentoLeido =>
    \A c \in CODIGOS_CONOCIDOS :
      HayToken(upper(entrada.pdf.texto), c) => c \in salida.valor

(* ------------------------------- C22 ---------------------------------- *)
\* the runs of five or more letters of t, each with the positions its
\* upper-case form takes in upper(t)
Corridas(t) ==
  {[ini |-> Len(upper(SubSeq(t, 1, a - 1))) + 1, fin |-> Len(upper(SubSeq(t, 1, b)))] :
     <<a, b>> \in {ab \in (DOMAIN t) \X (DOMAIN t) :
                     /\ ab[2] - ab[1] + 1 >= 5
                     /\ \A k \in ab[1]..ab[2] : t[k] \in Letras
                     /\ ab[1] = 1 \/ t[ab[1] - 1] \notin Letras
                     /\ ab[2] = Len(t) \/ t[ab[2] + 1] \notin Letras}}

\* no code returned is a match of the pattern that lies in the run r
SinPiezas(u, r) ==
  LET ms == finditer(u, 1)
  IN  \A k \in DOMAIN ms :
        ms[k].fin >= r.ini /\ ms[k].ini <= r.fin
          => SubSeq(u, ms[k].ini, ms[k].fin) \notin salida.valor

\* C22 as stated: for every run of five or more letters in the text,
\* extraer_codigos_oblea returns neither the run nor a piece of 2 to 4
\* letters cut out of it.
C22_CorridaExcluida ==
  DocumentoLeido =>
    LET u == upper(entrada.pdf.texto)
    IN  \A r \in Corridas(entrada.pdf.texto) :
          /\ SubSeq(u, r.ini, r.fin) \notin salida.valor
          /\ SinPiezas(u, r)

\* C22 amended: the run itself is never returned, and no piece of it is
\* returned when the upper-case form of the run is made of word characters
\* only (a letter whose upper-case form ends in a combining mark cuts the
\* run in two, and the letters on each side of the mark are tokens).
C22_CorridaDePalabra ==
  DocumentoLeido =>
    LET u == upper(entrada.pdf.texto)
    IN  \A r \in Corridas(entrada.pdf.texto) :
          /\ SubSeq(u, r.ini, r.fin) \notin salida.valor
          /\ (\A k \in r.ini..r.fin : EsPalabra(u[k])) => SinPiezas(u, r)

\* a text with a run of five plain letters has been read
C22_Witness ==
  /\ DocumentoLeido
  /\ \E r \in Corridas(entrada.pdf.texto) :
       \A k \in r.ini..r.fin : EsPalabra(upper(entrada.pdf.texto)[k])

(* ------------------------------- C23 ---------------------------------- *)
\* the codes of the lines of t, read off the text: a line runs from a to b
\* between two ends of line, it counts when its first character that is no
\* blank exists and is not "#", and a token runs from p to q between two
\* separators
CodigosDeLineas(t) ==
  {upper(SubSeq(t, x[3], x[4])) :
     x \in {y \in (DOMAIN t) \X (DOMAIN t) \X (DOMAIN t) \X (DOMAIN t) :
              LET a == y[1]
                  b == y[2]
                  p == y[3]
                  q == y[4]
              IN  /\ a <= p /\ p <= q /\ q <= b
                  /\ \A k \in a..b : t[k] # "\n"
                  /\ a = 1 \/ t[a - 1] = "\n"
                  /\ b = Len(t) \/ t[b + 1] = "\n"
                  /\ \E f \in a..b :
                       /\ t[f] \notin Blancos
                       /\ t[f] # "#"
                       /\ \A k \in a..(f - 1) : t[k] \in Blancos
                  /\ \A k \in p..q : t[k] \notin Separadores
                  /\ p = a \/ t[p - 1] \in Separadores
                  /\ q = b \/ t[q + 1] \in Separadores
                  /\ Len(upper(SubSeq(t, p, q))) \in 2..4}}

\* C23: extraer_codigos_desde_texto returns exactly the upper-cased tokens
\* of 2 to 4 characters of the lines that are neither blank nor comments,
\* split on commas and blanks; no dictionary is consulted.
C23_TokensDeLineas ==
  entrada.op = "extraer_codigos_desde_texto" /\ salida.veces = 1
    => salida.valor = CodigosDeLineas(entrada.texto)

\* a comment line that holds a token and a line that gives a code
C23_Witness ==
  /\ entrada.op = "extraer_codigos_desde_texto"
  /\ salida.veces = 1
  /\ entrada.texto = <<"#", "a", "\n", "a", "a">>
  /\ salida.valor = {<<"A", "A">>}

(* ------------------------------- C30 ---------------------------------- *)
\* C30: every match of CODIGO_PATTERN in the upper-cased text passes the
\* test of shape (2 to 4 characters, letters only once the marker is taken
\* out), so extraer_codigos_oblea returns the set of all the matches,
\* whether they are codes of the dictionary or not.
C30_TodasLasCoincidencias ==
  DocumentoLeido =>
    LET matches == findall(upper(entrada.pdf.texto))
    IN  /\ \A k \in DOMAIN matches :
             /\ Len(matches[k]) \in 2..4
             /\ isalpha(replace(matches[k], "/"))
        /\ salida.valor = {matches[k] : k \in DOMAIN matches}

\* a text with a match that is a code of the dictionary and one that is not
C30_Witness ==
  /\ DocumentoLeido
  /\ salida.valor \cap CODIGOS_CONOCIDOS # {}
  /\ salida.valor \ CODIGOS_CONOCIDOS # {}

(* ------------------------------- C24 ---------------------------------- *)
\* the read phase of a cycle has just run with these sources
RecienLeido == ult.op = "leer" /\ entrada.op = "verificar_vacantes"

\* C24: when codigos.txt is missing or cannot be read the extractor gives
\* no code and raises nothing: a cycle whose feed answered does not end in
\* an error and, the document giving no code either, keeps every listing.
C24_FuenteNuncaFatal ==
  RecienLeido /\ ~entrada.resp.falla /\ entrada.manual.estado \in {"ausente", "ilegible"}
    => /\ reg.estado # "ERROR - excepcion"
       /\ entrada.pdf = {} /\ entrada.resp.docs # <<>> => filtradas = entrada.resp.docs

(* ------------------------------- C26 ---------------------------------- *)
\* the registrar_consulta call that closes a cycle whose batch was delivered
\* and marked
CierraEntregado == pc = "registrar" /\ pc' = "idle" /\ reg.estado = "OK"

\* C26: when the delivery succeeded and no step failed, at the end of the
\* cycle every id of the delivered batch has a record and the entry just
\* appended to the log has status "OK", total_encontradas equal to the number
\* of listings the feed returned and nuevas equal to the size of the batch.
C26_CicloEntregado ==
  [][CierraEntregado =>
       /\ \A k \in DOMAIN nuevas : vacante_ya_notificada(archivo', nuevas[k].id)
       /\ LET log == cargar_datos(archivo').log_consultas
          IN  /\ Len(log) = Len(cargar_datos(archivo).log_consultas) + 1
              /\ log[Len(log)] = [fecha |-> ahora,
                                  total_encontradas |-> Len(entrada.resp.docs),
                                  nuevas |-> Len(nuevas), estado |-> "OK"]]_vars

\* a cycle closed with "OK" whose feed returned more listings than the batch
\* delivered
C26_Witness ==
  /\ pc = "idle"
  /\ ult = Hecho("registrar_consulta", FALSE)
  /\ entrada.op = "verificar_vacantes"
  /\ LET log == cargar_datos(archivo).log_consultas
     IN  /\ log # <<>>
         /\ log[Len(log)].estado = "OK"
         /\ log[Len(log)].total_encontradas = 2
         /\ log[Len(log)].nuevas = 1

(* ------------------------------- C27 ---------------------------------- *)
\* the read phase found new listings and the cycle goes on to enviar_email
PasaANotificar == pc = "idle" /\ pc' = "notificar"

\* C27: filtrar_nuevas decides each listing against the stored ledger only:
\* every listing of the list whose id has no record is returned, as often as
\* it occurs; the whole result is handed to enviar_email, and
\* marcar_como_notificada then runs once for each element, also for an id it
\* has just recorded.
C27_RepetidasEnElLote ==
  /\ [][PasaANotificar =>
          nuevas' = SelectSeq(filtradas',
                      LAMBDA v : v.id \notin DOMAIN notificadas(archivo))]_vars
  /\ [][pc = "notificar" /\ entregado' => pc' = "marcar" /\ i' = 1 /\ nuevas' = nuevas]_vars
  /\ [][pc = "marcar" =>
          /\ vacante_ya_notificada(archivo', nuevas[i].id)
          /\ notificadas(archivo')[nuevas[i].id].cargo = nuevas[i].cargo
          /\ i < Len(nuevas) => pc' = "marcar" /\ i' = i + 1 /\ nuevas' = nuevas]_vars

\* two listings built without an id are in the batch and the second call of
\* marcar_como_notificada for the id "" is about to run
C27_Witness ==
  /\ pc = "marcar"
  /\ i = 2
  /\ nuevas[1].id = ""
  /\ nuevas[2].id = ""
  /\ nuevas[1] # nuevas[2]
  /\ vacante_ya_notificada(archivo, "")

(* ------------------------------- C25 ---------------------------------- *)
\* the step is a call of one of the three operations that only read
LecturaPura ==
  ult'.op \in {"vacante_ya_notificada", "filtrar_nuevas", "obtener_estadisticas"}

\* the step is a registrar_consulta call that returned
PasoRegistrar ==
  pc = "registrar" /\ pc' = "idle" /\ ult' = Hecho("registrar_consulta", FALSE)

\* C25: vacante_ya_notificada, filtrar_nuevas and obtener_estadisticas leave
\* the file as it is, also when it is missing; obtener_estadisticas returns
\* the number of records as total_notificadas and, as ultima_consulta, the
\* entry the last registrar_consulta appended (None while the log is empty).
C25_SoloLectura ==
  /\ [][LecturaPura => archivo' = archivo]_vars
  /\ [][ult' = Hecho("obtener_estadisticas", FALSE) =>
          LET e == obtener_estadisticas(archivo)
          IN  /\ e.total_notificadas = Cardinality(DOMAIN notificadas(archivo))
              /\ log_consultas(archivo) = <<>> => e.ultima_consulta = "None"]_vars
  /\ [][PasoRegistrar =>
          obtener_estadisticas(archivo').ultima_consulta
            = [fecha |-> ahora, total_encontradas |-> reg.total, nuevas |-> reg.nuevas,
               estado |-> reg.estado]]_vars
  /\ [][~PasoRegistrar /\ Legible(archivo) /\ Legible(archivo')
          /\ log_consultas(archivo') # <<>>
          => /\ log_consultas(archivo) # <<>>
             /\ obtener_estadisticas(archivo').ultima_consulta
                  = obtener_estadisticas(archivo).ultima_consulta]_vars

\* obtener_estadisticas has run on a store with a record and two log entries
C25_Witness ==
  /\ ult = Hecho("obtener_estadisticas", FALSE)
  /\ archivo.existe
  /\ obtener_estadisticas(archivo).total_notificadas >= 1
  /\ obtener_estadisticas(archivo).total_consultas = 2
  /\ log_consultas(archivo)[1] # log_consultas(archivo)[2]

(* ------------------------------- C28 ---------------------------------- *)
\* C28: after k registrar_consulta calls total_consultas is min(k, 100): the
\* length of the log that is kept, never more than 100.
C28_TotalConsultas ==
  LET n == obtener_estadisticas(archivo).total_consultas
  IN  /\ n = IF consultas <= MAX_LOG THEN consultas ELSE MAX_LOG
      /\ n <= MAX_LOG

\* more calls have been made than the log keeps
C28_Witness ==
  /\ consultas = MAX_LOG + 1
  /\ obtener_estadisticas(archivo).total_consultas = MAX_LOG

(* ------------------------------- C29 ---------------------------------- *)
\* the records of a are those of b, one by one
MismosRegistros(a, b, ids) == \A x \in ids : notificadas(a)[x] = notificadas(b)[x]

\* C29: marcar_como_notificada leaves the log and the records of the other
\* ids as they are; registrar_consulta leaves the records as they are;
\* limpiar_antiguas leaves the log and the records it keeps as they are and,
\* when it removes none, does not write the file.
C29_CadaUnaSuParte ==
  /\ [][pc = "marcar" /\ ult' = Hecho("marcar_como_notificada", FALSE) =>
          /\ log_consultas(archivo') = log_consultas(archivo)
          /\ DOMAIN notificadas(archivo') = DOMAIN notificadas(archivo) \cup {nuevas[i].id}
          /\ MismosRegistros(archivo', archivo,
                             DOMAIN notificadas(archivo) \ {nuevas[i].id})]_vars
  /\ [][PasoRegistrar => notificadas(archivo') = notificadas(archivo)]_vars
  /\ [][PasoLimpiar /\ ~ult'.error =>
          /\ log_consultas(archivo') = log_consultas(archivo)
          /\ DOMAIN notificadas(archivo') \subseteq DOMAIN notificadas(archivo)
          /\ MismosRegistros(archivo', archivo, DOMAIN notificadas(archivo'))
          /\ DOMAIN notificadas(archivo') = DOMAIN notificadas(archivo)
               => archivo' = archivo]_vars

\* limpiar_antiguas has removed a record and kept another
C29_Witness ==
  /\ ult = Hecho("limpiar_antiguas", FALSE)
  /\ podadas # {}
  /\ DOMAIN notificadas(archivo) # {}
  /\ log_consultas(archivo) # <<>>

====
